---------------------------- MODULE Spec2Model ----------------------------
(***************************************************************************)
(* A model of the two console programs of the repository:                  *)
(*   - comp/calc.c      the menu-driven calculator (specification Spec),    *)
(*   - comp/gameguess.c the number-guessing game (specification GuessSpec). *)
(*                                                                         *)
(* Standard input is a finite sequence of tokens.  A token is a maximal    *)
(* run of non-blank characters; the newline is kept as a token of its own   *)
(* because the programs discard input up to the next newline; other blanks  *)
(* only separate tokens and are not represented.  End of input is the       *)
(* position just past the last token.                                       *)
(***************************************************************************)
EXTENDS Integers, Sequences, FiniteSets, TLC

(***************************************************************************)
(* Bounds of the model.                                                    *)
(***************************************************************************)
\* longest input stream that is enumerated token by token
MaxLen == 3
\* the banner and parse-failure counts are kept modulo MaxCount + 1: the
\* output of a run is unbounded (the loop need not end), the state is not
MaxCount == 3
\* longest enumerated stream of the specification with fairness
LiveMaxLen == 2
\* the guessing game: longest input stream, largest small value of rand(),
\* and the number of iterations followed
GMaxLen == 2
MaxRand == 8
MaxAttempts == 4

(***************************************************************************)
(* Tokens of the input stream.                                             *)
(***************************************************************************)
NL == "\n"
IntTokens == {"0", "1", "2", "3", "4", "5", "6", "7", "8"}
Tokens == IntTokens \cup {"x", "nan", "inf", NL}

\* the integer a decimal token denotes (what strtol makes of it)
IntVal(t) == CHOOSE i \in 0..8 : ToString(i) = t

(***************************************************************************)
(* double: a finite value is the exact rational n/d (d > 0, lowest terms); *)
(* every value the model's operands can produce is either exactly          *)
(* representable or is only rounded when printed.  NaN and the two         *)
(* infinities are values of their own.                                      *)
(***************************************************************************)
RECURSIVE Gcd(_, _)
Gcd(a, b) == IF b = 0 THEN a ELSE Gcd(b, a % b)

Abs(i) == IF i < 0 THEN -i ELSE i
Sgn(i) == IF i < 0 THEN -1 ELSE IF i > 0 THEN 1 ELSE 0

NAN == [k |-> "nan", n |-> 0, d |-> 1]
INF(s) == [k |-> "inf", n |-> s, d |-> 1]
Rat(n, d) ==
    LET g == Gcd(Abs(n), Abs(d))
    IN  [k |-> "fin", n |-> (Sgn(d) * n) \div g, d |-> Abs(d) \div g]
Fin(i) == Rat(i, 1)

isnan(v) == v.k = "nan"
isfinite(v) == v.k = "fin"
\* v == 0.0
IsZero(v) == v.k = "fin" /\ v.n = 0

\* a + b
DAdd(a, b) ==
    IF isnan(a) \/ isnan(b) THEN NAN
    ELSE IF a.k = "inf" /\ b.k = "inf" THEN (IF a.n = b.n THEN a ELSE NAN)
    ELSE IF a.k = "inf" THEN a
    ELSE IF b.k = "inf" THEN b
    ELSE Rat(a.n * b.d + b.n * a.d, a.d * b.d)

DNeg(a) == IF isnan(a) THEN NAN ELSE [a EXCEPT !.n = -a.n]

\* a - b
DSub(a, b) == DAdd(a, DNeg(b))

\* a * b
DMul(a, b) ==
    IF isnan(a) \/ isnan(b) THEN NAN
    ELSE IF a.k = "inf" \/ b.k = "inf"
         THEN (IF a.n = 0 \/ b.n = 0 THEN NAN ELSE INF(Sgn(a.n) * Sgn(b.n)))
    ELSE Rat(a.n * b.n, a.d * b.d)

\* a / b
DDiv(a, b) ==
    IF isnan(a) \/ isnan(b) THEN NAN
    ELSE IF a.k = "inf" THEN (IF b.k = "inf" THEN NAN
                              ELSE INF(a.n * (IF b.n < 0 THEN -1 ELSE 1)))
    ELSE IF b.k = "inf" THEN Fin(0)
    ELSE IF b.n = 0 THEN (IF a.n = 0 THEN NAN ELSE INF(Sgn(a.n)))
    ELSE Rat(a.n * b.d, a.d * b.n)

\* fmod(a, b): a - b * trunc(a / b), the sign of the dividend
fmod(a, b) ==
    IF isnan(a) \/ isnan(b) THEN NAN
    ELSE IF a.k = "inf" THEN NAN
    ELSE IF b.k = "inf" THEN a
    ELSE IF b.n = 0 THEN NAN
    ELSE LET num == Abs(a.n) * b.d
             den == a.d * Abs(b.n)
             r   == num % den
         IN  Rat(Sgn(a.n) * r, a.d * b.d)

RECURSIVE IPow(_, _)
IPow(b, e) == IF e = 0 THEN 1 ELSE b * IPow(b, e - 1)

\* pow(a, b) for an exponent that is an integer, NaN or an infinity (the
\* operands the tokens of the model denote)
pow(a, b) ==
    CASE IsZero(b) -> Fin(1)
      [] a = Fin(1) -> Fin(1)
      [] ~IsZero(b) /\ a # Fin(1) /\ (isnan(a) \/ isnan(b)) -> NAN
      [] ~isnan(a) /\ a # Fin(1) /\ b.k = "inf" ->
            IF a = Fin(-1) THEN Fin(1)
            ELSE IF a.k = "fin" /\ Abs(a.n) < a.d
                 THEN (IF b.n > 0 THEN Fin(0) ELSE INF(1))
                 ELSE (IF b.n > 0 THEN INF(1) ELSE Fin(0))
      [] a.k = "inf" /\ b.k = "fin" /\ b.n # 0 /\ b.d = 1 ->
            IF b.n > 0 THEN (IF a.n < 0 /\ b.n % 2 = 1 THEN INF(-1) ELSE INF(1))
            ELSE Fin(0)
      [] a.k = "fin" /\ a # Fin(1) /\ b.k = "fin" /\ b.n > 0 /\ b.d = 1 ->
            Rat(IPow(a.n, b.n), IPow(a.d, b.n))
      [] a.k = "fin" /\ a # Fin(1) /\ b.k = "fin" /\ b.n < 0 /\ b.d = 1 ->
            IF a.n = 0 THEN INF(1)
            ELSE Rat(IPow(a.d, -b.n), IPow(a.n, -b.n))

\* printf("%.2f", v): round to the nearest hundredth, ties to even
TwoDigits(i) == IF i < 10 THEN "0" \o ToString(i) ELSE ToString(i)
Format2f(v) ==
    IF isnan(v) THEN "nan"
    ELSE IF v.k = "inf" THEN (IF v.n < 0 THEN "-inf" ELSE "inf")
    ELSE LET num == Abs(v.n) * 100
             q   == num \div v.d
             r   == num % v.d
             h   == IF 2 * r > v.d THEN q + 1
                    ELSE IF 2 * r = v.d THEN q + (q % 2)
                    ELSE q
         IN  (IF v.n < 0 THEN "-" ELSE "")
             \o ToString(h \div 100) \o "." \o TwoDigits(h % 100)

(***************************************************************************)
(* The C library calls the programs make on standard input.  s is the      *)
(* stream, p the position of the next unread token (Len(s) + 1 at end of    *)
(* input).                                                                  *)
(***************************************************************************)
EOF == -1

\* leading white space, newlines included, is skipped by every conversion
RECURSIVE SkipWs(_, _)
SkipWs(s, p) == IF p <= Len(s) /\ s[p] = NL THEN SkipWs(s, p + 1) ELSE p

\* scanf("%d", &i): ret = 1 and the value stored, ret = 0 on a token that is
\* no integer (the token stays unread), ret = EOF at end of input
scanf_d(s, p) ==
    LET q == SkipWs(s, p)
    IN  IF q > Len(s) THEN [ret |-> EOF, val |-> 0, pos |-> q]
        ELSE IF s[q] \in IntTokens
             THEN [ret |-> 1, val |-> IntVal(s[q]), pos |-> q + 1]
             ELSE [ret |-> 0, val |-> 0, pos |-> q]

\* scanf("%lf", &d): as scanf_d, and "nan" and "inf" are numbers too
scanf_lf(s, p) ==
    LET q == SkipWs(s, p)
    IN  IF q > Len(s) THEN [ret |-> EOF, val |-> NAN, pos |-> q]
        ELSE IF s[q] \in IntTokens
             THEN [ret |-> 1, val |-> Fin(IntVal(s[q])), pos |-> q + 1]
        ELSE IF s[q] = "nan" THEN [ret |-> 1, val |-> NAN, pos |-> q + 1]
        ELSE IF s[q] = "inf" THEN [ret |-> 1, val |-> INF(1), pos |-> q + 1]
        ELSE [ret |-> 0, val |-> NAN, pos |-> q]

\* while ((c = getchar()) != '\n' && c != EOF);
RECURSIVE DiscardLine(_, _)
DiscardLine(s, p) ==
    IF p > Len(s) THEN p
    ELSE IF s[p] = NL THEN p + 1
    ELSE DiscardLine(s, p + 1)

(***************************************************************************)
(* comp/calc.c                                                             *)
(***************************************************************************)
\* typedef enum { ADD = 1, ..., EXIT } MenuChoice
ADD == 1
SUBTRACT == 2
MULTIPLY == 3
DIVIDE == 4
MODULUS_OP == 5
POWER == 6
EXIT == 7

\* the texts the program writes
MSG_BANNER == "Welcome to Simple Calculator\n"
MSG_PROMPT == "\nNow Enter your Choice: "
MSG_BYE == "Exiting calculator. Goodbye!\n"
MSG_ASK_FIRST == "\nPlease enter the first number: "
MSG_ASK_SECOND == "Now enter the second number: "
MSG_RESULT == "\nResult of operation is: "
ERR_CHOICE == "Invalid input. Please enter a valid menu option.\n"
ERR_RANGE ==
    "Invalid Menu Choice. Please enter a number between "
        \o ToString(ADD) \o " and " \o ToString(EXIT) \o ".\n"
ERR_FIRST == "Invalid input. Please enter a number for the first operand.\n"
ERR_SECOND == "Invalid input. Please enter a number for the second operand.\n"
ERR_DIV == "Error: Cannot divide by zero.\n"
ERR_MOD == "Error: Division by zero in modulus operation.\n"
ERR_SWITCH == "Error: Unhandled menu choice in switch!\n"

\* print_menu(): what it writes to stdout
print_menu ==
    << "\n\n------------------------------\n",
       MSG_BANNER,
       "------------------------------\n",
       "Choose one of the following Options:\n",
       ToString(ADD) \o ". Add\n",
       ToString(SUBTRACT) \o ". Subtract\n",
       ToString(MULTIPLY) \o ". Multiply\n",
       ToString(DIVIDE) \o ". Divide\n",
       ToString(MODULUS_OP) \o ". Modulus\n",
       ToString(POWER) \o ". Power\n",
       ToString(EXIT) \o ". Exit\n",
       "------------------------------\n" >>

\* prompt_for_choice(): what it writes to stdout
prompt_for_choice == << MSG_PROMPT >>

\* division without the test of the divisor
division_Unchecked(a, b) == [ret |-> DDiv(a, b), err |-> << >>]

\* division(a, b): the value returned and what is written to stderr
division(a, b) ==
    IF IsZero(b) THEN [ret |-> NAN, err |-> << ERR_DIV >>]
    ELSE [ret |-> DDiv(a, b), err |-> << >>]

\* modulus(a, b): the value returned and what is written to stderr
modulus(a, b) ==
    IF IsZero(b) THEN [ret |-> NAN, err |-> << ERR_MOD >>]
    ELSE [ret |-> fmod(a, b), err |-> << >>]

\* the switch with the subtraction's operands exchanged
Dispatch_Swapped(c, a, b) ==
    CASE c = ADD        -> [ret |-> DAdd(a, b), err |-> << >>]
      [] c = SUBTRACT   -> [ret |-> DSub(b, a), err |-> << >>]
      [] c = MULTIPLY   -> [ret |-> DMul(a, b), err |-> << >>]
      [] c = DIVIDE     -> division(a, b)
      [] c = MODULUS_OP -> modulus(a, b)
      [] c = POWER      -> [ret |-> pow(a, b), err |-> << >>]
      [] OTHER          -> [ret |-> NAN, err |-> << ERR_SWITCH >>]

\* the switch on Choice: the result and what is written to stderr
Dispatch(c, a, b) ==
    CASE c = ADD        -> [ret |-> DAdd(a, b), err |-> << >>]
      [] c = SUBTRACT   -> [ret |-> DSub(a, b), err |-> << >>]
      [] c = MULTIPLY   -> [ret |-> DMul(a, b), err |-> << >>]
      [] c = DIVIDE     -> division(a, b)
      [] c = MODULUS_OP -> modulus(a, b)
      [] c = POWER      -> [ret |-> pow(a, b), err |-> << >>]
      [] OTHER          -> [ret |-> NAN, err |-> << ERR_SWITCH >>]

\* if (!isnan(result)) printf("\nResult of operation is: %.2f\n", result);
\* (the line is kept in its three parts: the text, the number, the newline)
ShowResult(r) ==
    IF ~isnan(r) THEN << MSG_RESULT, Format2f(r), "\n" >> ELSE << >>

\* Choice >= EXIT
IsExit_AtLeast(c) == c >= EXIT

\* Choice == EXIT
IsExit(c) == c = EXIT

\* Choice < ADD, the upper test forgotten
OutOfRange_NoUpper(c) == c < ADD

\* Choice < ADD || Choice > EXIT
OutOfRange(c) == c < ADD \/ c > EXIT

\* the four places where the rest of the input line is consumed: after a
\* selection that is no integer, after a selection out of range, and in
\* get_numbers after a first and after a second operand that is no number
\* (the same places with the loop over getchar left out)
DiscardAfterChoice_Kept(s, p) == p
DiscardAfterSecond_Kept(s, p) == p
DiscardAfterChoice(s, p) == DiscardLine(s, p)
DiscardAfterRange(s, p) == DiscardLine(s, p)
DiscardAfterFirst(s, p) == DiscardLine(s, p)
DiscardAfterSecond(s, p) == DiscardLine(s, p)

\* what the three recovery paths of the loop write to stdout before `continue`
\* (the range path redisplaying the menu as the parse path does)
AfterBadRange_Menu == print_menu \o prompt_for_choice
AfterBadChoice == print_menu \o prompt_for_choice
AfterBadRange == prompt_for_choice
AfterBadNumbers == prompt_for_choice

(***************************************************************************)
(* State.                                                                  *)
(*   input, pos     standard input and the position of the next token        *)
(*   pc             where main() is blocked: at the scanf of the selection   *)
(*                  ("AwaitingSelection"), at one of the two scanf of        *)
(*                  get_numbers ("AwaitingFirst", "AwaitingSecond"), or      *)
(*                  returned ("Terminated")                                  *)
(*   Choice, first, second, result    the locals of main()                   *)
(*   exit_code      << >> while running, << status >> once main returned     *)
(*   out, err       what the current cycle wrote to stdout and stderr; a     *)
(*                  cycle starts at the scanf of a selection                 *)
(*   cycle_pos      the input position at which the current cycle started    *)
(*   step           the step of the loop taken last                          *)
(*   menus          number of banners written so far, modulo MaxCount + 1    *)
(*   parse_failures number of failed selection scanf so far, modulo          *)
(*                  MaxCount + 1                                             *)
(* and, for comp/gameguess.c,                                                *)
(*   g_input, g_pos, g_pc, random, guess, no_of_guess, g_out, g_read         *)
(***************************************************************************)
VARIABLES input, pos, pc, Choice, first, second, result, exit_code,
          out, err, cycle_pos, step, menus, parse_failures,
          g_input, g_pos, g_pc, random, guess, no_of_guess, g_out, g_read

calc_vars == << input, pos, pc, Choice, first, second, result, exit_code,
                out, err, cycle_pos, step, menus, parse_failures >>
guess_vars == << g_input, g_pos, g_pc, random, guess, no_of_guess, g_out,
                 g_read >>
vars == << calc_vars, guess_vars >>

\* all streams of at most n tokens
StreamsUpTo(n) == UNION { [1..k -> Tokens] : k \in 0..n }

\* the sessions written out in full: the two of the specification's test
\* scenarios, and one session per recovery path followed by a further line
Scenarios ==
    { << "1", NL, "3", NL, "4", NL, "7", NL >>,
      << "4", NL, "5", NL, "0", NL, "7", NL >>,
      << "x", "1", NL, "2", "8", "3", NL, "7", NL >>,
      << "8", "1", NL, "3", "2", "3", NL, "7", NL >>,
      << "1", "x", "2", NL, "5", "7", "0", NL, "7" >>,
      << "6", "2", "x", "3", NL, NL, "6", "nan", "0", "7" >>,
      << "x", NL, "nan", NL, "0", NL, "1", "x", NL, "2", "5", "3", NL, "7" >>,
      << "x", NL, "x", NL, "x", NL, "x", NL, "7", NL >> }

Streams == StreamsUpTo(MaxLen) \cup Scenarios

\* the number of banners in a piece of output
Banners(o) == Cardinality({ i \in 1..Len(o) : o[i] = MSG_BANNER })

CountUp(c, k) == (c + k) % (MaxCount + 1)

\* the other program does not run
GuessIdle ==
    /\ g_input = << >>
    /\ g_pos = 1
    /\ g_pc = "idle"
    /\ random = 0
    /\ guess = 0
    /\ no_of_guess = 0
    /\ g_out = << >>
    /\ g_read = 0

\* main() up to the first scanf: print_menu(); prompt_for_choice();
\* the locals are not yet assigned (and are not read before they are)
CalcInit(S) ==
    /\ input \in S
    /\ pos = 1
    /\ pc = "AwaitingSelection"
    /\ Choice = 0
    /\ first = Fin(0)
    /\ second = Fin(0)
    /\ result = Fin(0)
    /\ exit_code = << >>
    /\ out = print_menu \o prompt_for_choice
    /\ err = << >>
    /\ cycle_pos = 1
    /\ step = "start"
    /\ menus = CountUp(0, Banners(print_menu \o prompt_for_choice))
    /\ parse_failures = 0

Init == CalcInit(Streams) /\ GuessIdle

\* scanf("%d", (int*)&Choice) != 1: diagnostic, discard the line, menu, prompt
ChoiceInvalid ==
    LET sc == scanf_d(input, pos)
    IN  /\ pc = "AwaitingSelection"
        /\ sc.ret # 1
        /\ err' = << ERR_CHOICE >>
        /\ pos' = DiscardAfterChoice(input, sc.pos)
        /\ out' = AfterBadChoice
        /\ menus' = CountUp(menus, Banners(AfterBadChoice))
        /\ parse_failures' = CountUp(parse_failures, 1)
        /\ cycle_pos' = pos
        /\ step' = "ChoiceInvalid"
        /\ UNCHANGED << input, pc, Choice, first, second, result, exit_code >>
        /\ UNCHANGED guess_vars

\* Choice == EXIT: farewell, break, return 0
ChoiceExit ==
    LET sc == scanf_d(input, pos)
    IN  /\ pc = "AwaitingSelection"
        /\ sc.ret = 1
        /\ IsExit(sc.val)
        /\ Choice' = sc.val
        /\ pos' = sc.pos
        /\ out' = << MSG_BYE >>
        /\ err' = << >>
        /\ pc' = "Terminated"
        /\ exit_code' = << 0 >>
        /\ cycle_pos' = pos
        /\ step' = "ChoiceExit"
        /\ UNCHANGED << input, first, second, result, menus, parse_failures >>
        /\ UNCHANGED guess_vars

\* Choice < ADD || Choice > EXIT: diagnostic, discard the line, prompt
ChoiceOutOfRange ==
    LET sc == scanf_d(input, pos)
    IN  /\ pc = "AwaitingSelection"
        /\ sc.ret = 1
        /\ ~IsExit(sc.val)
        /\ OutOfRange(sc.val)
        /\ Choice' = sc.val
        /\ err' = << ERR_RANGE >>
        /\ pos' = DiscardAfterRange(input, sc.pos)
        /\ out' = AfterBadRange
        /\ menus' = CountUp(menus, Banners(AfterBadRange))
        /\ cycle_pos' = pos
        /\ step' = "ChoiceOutOfRange"
        /\ UNCHANGED << input, pc, first, second, result, exit_code,
                        parse_failures >>
        /\ UNCHANGED guess_vars

\* a selection that passed both tests: get_numbers() is called and asks for
\* the first number
ChoiceAccepted ==
    LET sc == scanf_d(input, pos)
    IN  /\ pc = "AwaitingSelection"
        /\ sc.ret = 1
        /\ ~IsExit(sc.val)
        /\ ~OutOfRange(sc.val)
        /\ Choice' = sc.val
        /\ pos' = sc.pos
        /\ out' = << MSG_ASK_FIRST >>
        /\ err' = << >>
        /\ pc' = "AwaitingFirst"
        /\ cycle_pos' = pos
        /\ step' = "ChoiceAccepted"
        /\ UNCHANGED << input, first, second, result, exit_code, menus,
                        parse_failures >>
        /\ UNCHANGED guess_vars

\* get_numbers: scanf("%lf", first) != 1: diagnostic, discard the line,
\* return 1; main: prompt, continue
FirstInvalid ==
    LET sc == scanf_lf(input, pos)
    IN  /\ pc = "AwaitingFirst"
        /\ sc.ret # 1
        /\ err' = err \o << ERR_FIRST >>
        /\ pos' = DiscardAfterFirst(input, sc.pos)
        /\ out' = out \o AfterBadNumbers
        /\ menus' = CountUp(menus, Banners(AfterBadNumbers))
        /\ pc' = "AwaitingSelection"
        /\ step' = "FirstInvalid"
        /\ UNCHANGED << input, Choice, first, second, result, exit_code,
                        cycle_pos, parse_failures >>
        /\ UNCHANGED guess_vars

\* get_numbers: the first number is read, the second is asked for
FirstRead ==
    LET sc == scanf_lf(input, pos)
    IN  /\ pc = "AwaitingFirst"
        /\ sc.ret = 1
        /\ first' = sc.val
        /\ pos' = sc.pos
        /\ out' = out \o << MSG_ASK_SECOND >>
        /\ pc' = "AwaitingSecond"
        /\ step' = "FirstRead"
        /\ UNCHANGED << input, Choice, second, result, exit_code, err,
                        cycle_pos, menus, parse_failures >>
        /\ UNCHANGED guess_vars

\* get_numbers: scanf("%lf", second) != 1: diagnostic, discard the line,
\* return 1; main: prompt, continue
SecondInvalid ==
    LET sc == scanf_lf(input, pos)
    IN  /\ pc = "AwaitingSecond"
        /\ sc.ret # 1
        /\ err' = err \o << ERR_SECOND >>
        /\ pos' = DiscardAfterSecond(input, sc.pos)
        /\ out' = out \o AfterBadNumbers
        /\ menus' = CountUp(menus, Banners(AfterBadNumbers))
        /\ pc' = "AwaitingSelection"
        /\ step' = "SecondInvalid"
        /\ UNCHANGED << input, Choice, first, second, result, exit_code,
                        cycle_pos, parse_failures >>
        /\ UNCHANGED guess_vars

\* get_numbers returns 0; main: the switch, the result line unless the
\* result is NaN, the prompt
Compute ==
    LET sc == scanf_lf(input, pos)
        r  == Dispatch(Choice, first, sc.val)
        o  == ShowResult(r.ret) \o prompt_for_choice
    IN  /\ pc = "AwaitingSecond"
        /\ sc.ret = 1
        /\ second' = sc.val
        /\ pos' = sc.pos
        /\ result' = r.ret
        /\ err' = err \o r.err
        /\ out' = out \o o
        /\ menus' = CountUp(menus, Banners(o))
        /\ pc' = "AwaitingSelection"
        /\ step' = "Compute"
        /\ UNCHANGED << input, Choice, first, exit_code, cycle_pos,
                        parse_failures >>
        /\ UNCHANGED guess_vars

Next ==
    \/ ChoiceInvalid
    \/ ChoiceExit
    \/ ChoiceOutOfRange
    \/ ChoiceAccepted
    \/ FirstInvalid
    \/ FirstRead
    \/ SecondInvalid
    \/ Compute

Spec == Init /\ [][Next]_vars

\* the loop never waits for anything but input, which is all there from the
\* start: a step that can be taken is taken
FairInit == CalcInit(StreamsUpTo(LiveMaxLen) \cup Scenarios) /\ GuessIdle
FairSpec == FairInit /\ [][Next]_vars /\ WF_vars(Next)

(***************************************************************************)
(* comp/gameguess.c                                                        *)
(***************************************************************************)
MSG_LARGER == "Guess a larger number. \n"
MSG_SMALLER == "Guess a smaller number. \n"
MSG_CORRECT(n) ==
    "Congratulation !!!You have sucessfully gussed the number in "
        \o ToString(n) \o " attempts"

RAND_MAX == 2147483647

\* the values rand() is let return: the small ones, those around the
\* modulus, and the largest
RandValues == (0..MaxRand) \cup {99, 100, RAND_MAX}

\* rand() % 100 + 1
Target(r) == (r % 100) + 1

\* `guess` is not initialised: if the first scanf stores nothing, the
\* comparison reads an indeterminate int
Indeterminate == {-1, 0, 1, 100}

\* the calculator does not run
CalcIdle ==
    /\ input = << >>
    /\ pos = 1
    /\ pc = "idle"
    /\ Choice = 0
    /\ first = Fin(0)
    /\ second = Fin(0)
    /\ result = Fin(0)
    /\ exit_code = << >>
    /\ out = << >>
    /\ err = << >>
    /\ cycle_pos = 1
    /\ step = "start"
    /\ menus = 0
    /\ parse_failures = 0

\* main() up to the do loop
GuessInit ==
    /\ g_input \in StreamsUpTo(GMaxLen)
    /\ g_pos = 1
    /\ g_pc = "AwaitingGuess"
    /\ \E r \in RandValues : random = Target(r)
    /\ guess \in Indeterminate
    /\ no_of_guess = 0
    /\ g_out = << >>
    /\ g_read = 0
    /\ CalcIdle

\* scanf("%d", &guess), its result ignored: guess keeps its value unless a
\* number was converted
ScannedGuess ==
    LET sc == scanf_d(g_input, g_pos)
    IN  [val |-> IF sc.ret = 1 THEN sc.val ELSE guess,
         pos |-> sc.pos,
         converted |-> IF sc.ret = 1 THEN 1 ELSE 0]

\* one pass through the body of the do loop, writing message m and going on
\* at nxt
GuessBody(m, nxt) ==
    /\ g_pc = "AwaitingGuess"
    /\ no_of_guess < MaxAttempts
    /\ guess' = ScannedGuess.val
    /\ g_pos' = ScannedGuess.pos
    /\ g_read' = g_read + ScannedGuess.converted
    /\ no_of_guess' = no_of_guess + 1
    /\ g_out' = << m >>
    /\ g_pc' = nxt
    /\ UNCHANGED << g_input, random >>
    /\ UNCHANGED calc_vars

\* guess < random
GuessLow ==
    /\ ScannedGuess.val < random
    /\ GuessBody(MSG_LARGER, "AwaitingGuess")

\* guess > random
GuessHigh ==
    /\ ~(ScannedGuess.val < random)
    /\ ScannedGuess.val > random
    /\ GuessBody(MSG_SMALLER, "AwaitingGuess")

\* otherwise: the congratulation, and while (guess != random) ends the loop
GuessRight ==
    /\ ~(ScannedGuess.val < random)
    /\ ~(ScannedGuess.val > random)
    /\ GuessBody(MSG_CORRECT(no_of_guess + 1), "done")

GuessNext ==
    \/ GuessLow
    \/ GuessHigh
    \/ GuessRight

GuessSpec == GuessInit /\ [][GuessNext]_vars

(***************************************************************************)
(* Properties.                                                             *)
(***************************************************************************)
Len1 == Len(input) + 1

\* the first token at or after position p that is no newline (Len1 if none)
NextTok(p) ==
    CHOOSE q \in p..Len1 :
        /\ \A i \in p..(q - 1) : input[i] = NL
        /\ q = Len1 \/ input[q] # NL

\* the tokens the current cycle's conversions looked at
SelTok == NextTok(cycle_pos)
FirstTok == IF SelTok = Len1 THEN Len1 ELSE NextTok(SelTok + 1)
SecondTok == IF FirstTok = Len1 THEN Len1 ELSE NextTok(FirstTok + 1)

\* the input from token q on was consumed up to and including the first
\* newline, or up to the end of input if there is none
LineDiscarded(q) ==
    /\ \A i \in q..(pos - 2) : input[i] # NL
    /\ \/ pos - 1 >= q /\ pos <= Len1 /\ input[pos - 1] = NL
       \/ pos = Len1 /\ \A i \in q..Len(input) : input[i] # NL

ResultLines(o) == Cardinality({ i \in 1..Len(o) : o[i] = MSG_RESULT })
UndefinedDiagnostics(e) ==
    Cardinality({ i \in 1..Len(e) : e[i] \in {ERR_DIV, ERR_MOD} })
Running == pc # "Terminated" /\ exit_code = << >>

\* C1: the loop is left only by reading the selection 7: in Terminated the
\* last step read the token 7 as the cycle's selection, wrote the farewell
\* and nothing else, consumed no operand, and main returned 0; in every
\* other state main has not returned and the selection of the cycle under
\* way was not 7.
C1_TerminatedOnlyByExit ==
    /\ pc = "Terminated" =>
          /\ step = "ChoiceExit"
          /\ SelTok <= Len(input)
          /\ input[SelTok] = "7"
          /\ pos = SelTok + 1
          /\ out = << "Exiting calculator. Goodbye!\n" >>
          /\ err = << >>
          /\ exit_code = << 0 >>
    /\ pc # "Terminated" =>
          /\ exit_code = << >>
          /\ step # "ChoiceExit"
          /\ (step # "start" /\ SelTok <= Len(input)) => input[SelTok] # "7"

\* an Exit read after at least one earlier cycle
C1_Witness == pc = "Terminated" /\ cycle_pos > 1 /\ exit_code = << 0 >>

\* C2: for every finite input the calculator eventually reaches Terminated
\* (end of input while waiting for a selection acts as an exit).
C2_EventuallyTerminated == <>(pc = "Terminated")

\* C3: a cycle in which a selection 1..6 and both operands were read writes
\* exactly one of: the result line, a diagnostic of an undefined result.
C3_ResultOrDiagnostic ==
    step = "Compute" =>
        \/ ResultLines(out) = 1 /\ UndefinedDiagnostics(err) = 0
        \/ ResultLines(out) = 0 /\ UndefinedDiagnostics(err) = 1

\* C4: when the first or the second operand does not parse, the diagnostic
\* names that operand, the line is discarded from the offending token on,
\* the second operand is not asked for if the first failed, nothing is
\* computed or reported, and the loop waits for a selection again.
C4_OperandFailure ==
    /\ step = "FirstInvalid" =>
          /\ FirstTok = Len1 \/ input[FirstTok] \in {"x"}
          /\ err = << "Invalid input. Please enter a number for the first operand.\n" >>
          /\ out = << MSG_ASK_FIRST, MSG_PROMPT >>
          /\ LineDiscarded(FirstTok)
          /\ pc = "AwaitingSelection"
          /\ Running
    /\ step = "SecondInvalid" =>
          /\ SecondTok = Len1 \/ input[SecondTok] \in {"x"}
          /\ err = << "Invalid input. Please enter a number for the second operand.\n" >>
          /\ out = << MSG_ASK_FIRST, MSG_ASK_SECOND, MSG_PROMPT >>
          /\ LineDiscarded(SecondTok)
          /\ pc = "AwaitingSelection"
          /\ Running
    /\ (step \in {"FirstRead", "Compute"} /\ FirstTok <= Len(input)) =>
          input[FirstTok] # "x"
    /\ (step = "Compute" /\ SecondTok <= Len(input)) => input[SecondTok] # "x"

\* a second operand that failed in the middle of a line, with input left
C4_Witness ==
    /\ step = "SecondInvalid"
    /\ SecondTok < Len(input)
    /\ pos <= Len(input)

\* C5: Divide and Remainder by zero with a finite first operand: the
\* diagnostic, no result line, and the loop prompts for the next selection.
C5_ZeroDivisor ==
    (/\ step = "Compute"
     /\ Choice \in {4, 5}
     /\ second = Fin(0)
     /\ isfinite(first)) =>
        /\ err = << IF Choice = 4 THEN "Error: Cannot divide by zero.\n"
                    ELSE "Error: Division by zero in modulus operation.\n" >>
        /\ ResultLines(out) = 0
        /\ out = << MSG_ASK_FIRST, MSG_ASK_SECOND, MSG_PROMPT >>
        /\ pc = "AwaitingSelection"
        /\ Running

C5_Witness ==
    /\ step = "Compute"
    /\ Choice = 4
    /\ first = Fin(5)
    /\ second = Fin(0)

\* C6: a selection that is no integer: the diagnostic, the line discarded
\* from the offending token on, no operand asked for, nothing computed, and
\* the loop goes on waiting for a selection.
C6_SelectionParseFailure ==
    /\ step = "ChoiceInvalid" =>
          /\ SelTok = Len1 \/ input[SelTok] \in {"x", "nan", "inf"}
          /\ err = << "Invalid input. Please enter a valid menu option.\n" >>
          /\ LineDiscarded(SelTok)
          /\ out = print_menu \o << MSG_PROMPT >>
          /\ pc = "AwaitingSelection"
          /\ Running
    /\ (step \notin {"start", "ChoiceInvalid"} /\ SelTok <= Len(input)) =>
          input[SelTok] \notin {"x", "nan", "inf"}

\* a bad selection followed by more tokens on its line and by a further line
C6_Witness ==
    /\ step = "ChoiceInvalid"
    /\ SelTok < Len(input)
    /\ pos > SelTok + 2
    /\ pos <= Len(input)

\* C7: an integer selection outside 1..7: the diagnostic naming 1 and 7, the
\* rest of the line discarded, only the prompt written, no operand asked
\* for, the loop goes on; and only a selection in 1..6 gets as far as the
\* operands and the switch, whose default branch is never taken.
C7_SelectionOutOfRange ==
    /\ step = "ChoiceOutOfRange" =>
          /\ input[SelTok] \in {"0", "8"}
          /\ err = << "Invalid Menu Choice. Please enter a number between 1 and 7.\n" >>
          /\ LineDiscarded(SelTok + 1)
          /\ out = << MSG_PROMPT >>
          /\ pc = "AwaitingSelection"
          /\ Running
    /\ step \in {"ChoiceAccepted", "FirstInvalid", "FirstRead",
                 "SecondInvalid", "Compute"} =>
          /\ input[SelTok] \in {"1", "2", "3", "4", "5", "6"}
          /\ Choice \in 1..6
    /\ \A i \in 1..Len(err) : err[i] # ERR_SWITCH

C7_Witness ==
    /\ step = "ChoiceOutOfRange"
    /\ Choice = 8
    /\ pos <= Len(input)

\* C8: the number of banners written is 1 plus the number of selections
\* that failed to parse (both counted modulo MaxCount + 1).
C8_BannerCount == menus = (1 + parse_failures) % (MaxCount + 1)

\* two parse failures, a selection out of range and an operand failure,
\* then a result
C8_Witness ==
    /\ parse_failures = 2
    /\ menus = 3
    /\ step = "Compute"

\* the sum, difference or product of the integers the operands stand for
C9_Expected ==
    CASE Choice = 1 -> first.n + second.n
      [] Choice = 2 -> first.n - second.n
      [] Choice = 3 -> first.n * second.n

\* C9: Add, Subtract, Multiply on two finite operands: exactly the result
\* line with the sum, difference or product to two decimals, no diagnostic,
\* then the prompt; the session 1, 3, 4, 7 reports 7.00 and ends on Exit.
C9_AddSubtractMultiply ==
    /\ (/\ step = "Compute"
        /\ Choice \in {1, 2, 3}
        /\ isfinite(first)
        /\ isfinite(second)) =>
          /\ first.d = 1 /\ second.d = 1
          /\ out = << MSG_ASK_FIRST, MSG_ASK_SECOND,
                      "\nResult of operation is: ",
                      ToString(C9_Expected) \o ".00", "\n", MSG_PROMPT >>
          /\ err = << >>
          /\ pc = "AwaitingSelection"
    /\ (input = << "1", NL, "3", NL, "4", NL, "7", NL >> /\ step = "Compute") =>
          out[4] = "7.00"
    /\ (input = << "1", NL, "3", NL, "4", NL, "7", NL >> /\ pos > 6) =>
          pc = "Terminated"

\* a subtraction with a negative difference
C9_Witness ==
    /\ step = "Compute"
    /\ Choice = 2
    /\ first = Fin(3)
    /\ second = Fin(8)

\* C10: each iteration of the guessing loop reads one guess, counts it and
\* writes the one message that fits the comparison; the loop ends exactly
\* when the guess equals the target, and the count reported is the number
\* of guesses read.
C10_GuessLoop ==
    (g_pc # "idle" /\ no_of_guess > 0) =>
        /\ random \in 1..100
        /\ g_read = no_of_guess
        /\ guess < random => g_out = << MSG_LARGER >>
        /\ guess > random => g_out = << MSG_SMALLER >>
        /\ guess = random => g_out = << MSG_CORRECT(g_read) >>
        /\ g_pc = "done" <=> guess = random

=============================================================================
